---- MODULE Spec2Model ----
(***************************************************************************)
(* A model of app.py, the TPT title / description / keyword generator.     *)
(*                                                                         *)
(* Python strings are TLA+ strings; TLC evaluates Len, SubSeq and \o on    *)
(* them, so a character is the one-character string SubSeq(s, i, i) and    *)
(* every text operation of the program (strip, lower, title, split, the    *)
(* regular-expression substitutions, str.format) is computed character by  *)
(* character, as Python computes it.  Python lists are sequences.          *)
(*                                                                         *)
(* The module holds one state machine per entry point:                     *)
(*   Spec          produce_rows, the generation pass behind the button     *)
(*   SpecSoftCap   soft_cap called on its own                              *)
(*   SpecSlugify   slugify called on its own                               *)
(*   SpecFormat    format_short called on its own                          *)
(*   SpecCluster   cluster_keywords called on its own                      *)
(*   SpecScore     score_title and score_description called on their own   *)
(*   SpecDesc      generate_description called on its own                  *)
(***************************************************************************)
EXTENDS Integers, Sequences, FiniteSets, TLC

VARIABLES
    pc,          \* position of the running call
    req,         \* produce_rows: the request (the sidebar's inputs)
    cand,        \* produce_rows: keyword_candidates' list
    clusters,    \* produce_rows: cluster_keywords' list of clusters
    focus_terms, \* produce_rows: the focus terms handed to the scorers
    rows,        \* produce_rows: the rows appended so far
    arg,         \* a function called on its own: its arguments
    ret          \* a function called on its own: what it returned

vars == <<pc, req, cand, clusters, focus_terms, rows, arg, ret>>

\* The value of a variable that holds nothing yet.
None == [none |-> TRUE]

(***************************************************************************)
(* Bounds of the model.                                                    *)
(***************************************************************************)
\* soft_cap on its own: texts over SoftCapAlphabet up to this length.
MaxTextLen == 5
\* soft_cap on its own: limits 0..MaxLimit.
MaxLimit == 5
\* slugify on its own: strings over SlugAlphabet up to this length.
MaxSlugLen == 3

(***************************************************************************)
(* Characters and Python's str / re primitives.                            *)
(***************************************************************************)
Ch(s, i) == SubSeq(s, i, i)

Min(S) == CHOOSE x \in S : \A y \in S : x <= y
Max(S) == 0 - Min({0 - x : x \in S})

UPPER == "ABCDEFGHIJKLMNOPQRSTUVWXYZ"
LOWER == "abcdefghijklmnopqrstuvwxyz"
DIGITS == "0123456789"

CharsOf(s) == {Ch(s, i) : i \in 1..Len(s)}
UpperChars == CharsOf(UPPER)
\* U+00E2 is a lowercase letter too: it stands in the file's string literals.
LowerChars == CharsOf(LOWER) \cup {"â"}
DigitChars == CharsOf(DIGITS)

\* str.isspace / the class \s
IsSpace(c) == c = " " \/ c = "\t" \/ c = "\n"
\* the class \w (re.U): letters, digits and the underscore
IsWord(c) == c \in UpperChars \cup LowerChars \cup DigitChars \cup {"_"}
IsCased(c) == c \in UpperChars \cup LowerChars

LowerOf == [c \in UpperChars |-> Ch(LOWER, CHOOSE i \in 1..26 : Ch(UPPER, i) = c)]
UpperOf == [c \in CharsOf(LOWER) |-> Ch(UPPER, CHOOSE i \in 1..26 : Ch(LOWER, i) = c)]
lower_ch(c) == IF c \in UpperChars THEN LowerOf[c] ELSE c
upper_ch(c) == IF c \in CharsOf(LOWER) THEN UpperOf[c] ELSE c

\* The characters of s at lo..hi, each replaced by F(s, i) (a string, possibly
\* empty), joined.  Halving keeps the evaluation depth logarithmic.
RECURSIVE MapChars(_, _, _, _)
MapChars(F(_, _), s, lo, hi) ==
    IF lo > hi THEN ""
    ELSE IF lo = hi THEN F(s, lo)
    ELSE LET mid == (lo + hi) \div 2
         IN  MapChars(F, s, lo, mid) \o MapChars(F, s, mid + 1, hi)

\* str.lower()
lower(s) == LET F(t, i) == lower_ch(Ch(t, i)) IN MapChars(F, s, 1, Len(s))

\* str.title(): a cased character is uppercased when the character before it
\* is not cased, and lowercased otherwise.
title(s) ==
    LET F(t, i) == IF i > 1 /\ IsCased(Ch(t, i - 1)) THEN lower_ch(Ch(t, i))
                   ELSE upper_ch(Ch(t, i))
    IN  MapChars(F, s, 1, Len(s))

\* str.strip()
strip(s) ==
    LET keep == {i \in 1..Len(s) : ~IsSpace(Ch(s, i))}
    IN  IF keep = {} THEN "" ELSE SubSeq(s, Min(keep), Max(keep))

\* re.sub(r"\s+", " ", s)
collapse_ws(s) ==
    LET F(t, i) == IF ~IsSpace(Ch(t, i)) THEN Ch(t, i)
                   ELSE IF i > 1 /\ IsSpace(Ch(t, i - 1)) THEN "" ELSE " "
    IN  MapChars(F, s, 1, Len(s))

\* needle in hay
contains(needle, hay) ==
    \E i \in 1..(Len(hay) - Len(needle) + 1) : SubSeq(hay, i, i + Len(needle) - 1) = needle

\* The starts of the whitespace-delimited words of s.
WordStarts(s) ==
    {i \in 1..Len(s) : ~IsSpace(Ch(s, i)) /\ (i = 1 \/ IsSpace(Ch(s, i - 1)))}

\* len(s.split())
word_count(s) == Cardinality(WordStarts(s))

\* s.split()[0], for s with at least one word
first_token(s) ==
    LET b == Min(WordStarts(s))
        ends == {j \in b..Len(s) : j = Len(s) \/ IsSpace(Ch(s, j + 1))}
    IN  SubSeq(s, b, Min(ends))

\* sep.join(items)
RECURSIVE join(_, _)
join(sep, items) ==
    IF items = <<>> THEN ""
    ELSE IF Len(items) = 1 THEN items[1]
    ELSE items[1] \o sep \o join(sep, Tail(items))

\* [x for x in seq if P(x)]
RECURSIVE Filter(_, _)
Filter(P(_), seq) ==
    IF seq = <<>> THEN <<>>
    ELSE (IF P(Head(seq)) THEN <<Head(seq)>> ELSE <<>>) \o Filter(P, Tail(seq))

Range(seq) == {seq[i] : i \in 1..Len(seq)}

\* All strings over the characters of alphabet, of length at most n.
RECURSIVE StringsUpTo(_, _)
StringsUpTo(alphabet, n) ==
    IF n = 0 THEN {""}
    ELSE LET shorter == StringsUpTo(alphabet, n - 1)
         IN  shorter \cup {s \o c : s \in shorter, c \in alphabet}

(***************************************************************************)
(* Utilities                                                               *)
(***************************************************************************)
\* slugify: the first substitution, strip and lower, then the second.
slugify(s) ==
    LET Keep(t, i) == IF IsWord(Ch(t, i)) \/ IsSpace(Ch(t, i)) \/ Ch(t, i) = "-"
                      THEN Ch(t, i) ELSE ""
        s1 == lower(strip(MapChars(Keep, s, 1, Len(s))))
        IsSep(c) == c = "-" \/ IsSpace(c)
        Hyphen(t, i) == IF ~IsSep(Ch(t, i)) THEN Ch(t, i)
                        ELSE IF i > 1 /\ IsSep(Ch(t, i - 1)) THEN "" ELSE "-"
    IN  MapChars(Hyphen, s1, 1, Len(s1))

\* uniq without its seen set: every element is kept.
uniq_keeping_repeats(seq) == seq

RECURSIVE uniq_from(_, _, _)
uniq_from(seq, seen, out) ==
    IF seq = <<>> THEN out
    ELSE IF Head(seq) \notin seen
         THEN uniq_from(Tail(seq), seen \cup {Head(seq)}, Append(out, Head(seq)))
         ELSE uniq_from(Tail(seq), seen, out)

uniq(seq) == uniq_from(seq, {}, <<>>)

title_case(s) == title(strip(collapse_ws(s)))

join_with_and(items) ==
    LET NonEmpty(i) == i /= ""
        its == Filter(NonEmpty, items)
    IN  IF its = <<>> THEN ""
        ELSE IF Len(its) = 1 THEN its[1]
        ELSE join(", ", SubSeq(its, 1, Len(its) - 1)) \o " and " \o its[Len(its)]

\* The string literal soft_cap appends: three characters in the file.
ELLIPSIS == "â€¦"

\* text[:limit].rsplit(" ", 1)[0]
rsplit_head(text, limit) ==
    LET pre == SubSeq(text, 1, limit)
        sp == {i \in 1..Len(pre) : Ch(pre, i) = " "}
    IN  IF sp = {} THEN pre ELSE SubSeq(pre, 1, Max(sp) - 1)

soft_cap(text, limit) ==
    IF Len(text) <= limit THEN text
    ELSE rsplit_head(text, limit) \o ELLIPSIS

(***************************************************************************)
(* soft_cap called on its own.                                             *)
(***************************************************************************)
SoftCapAlphabet == {"a", "b", " "}

\* No generation pass is running.
InitIdle ==
    req = None /\ cand = <<>> /\ clusters = <<>> /\ focus_terms = <<>> /\ rows = <<>>

InitSoftCap ==
    /\ pc = "call"
    /\ ret = None
    /\ arg \in [text : StringsUpTo(SoftCapAlphabet, MaxTextLen), limit : 0..MaxLimit]
    /\ InitIdle

SoftCapCall ==
    /\ pc = "call"
    /\ ret' = soft_cap(arg.text, arg.limit)
    /\ pc' = "returned"
    /\ UNCHANGED <<req, cand, clusters, focus_terms, rows, arg>>

SpecSoftCap == InitSoftCap /\ [][SoftCapCall]_vars

\* C2: soft_cap returns the text unchanged when it fits the limit, and
\* otherwise a string of at most limit + 1 characters.
C2_SoftCapLength ==
    pc = "returned" =>
        /\ Len(arg.text) <= arg.limit => ret = arg.text
        /\ Len(arg.text) > arg.limit => Len(ret) <= arg.limit + 1

(***************************************************************************)
(* slugify called on its own.                                              *)
(***************************************************************************)
SlugAlphabet == {"a", "B", "3", "-", " ", "!", "_"}

\* The f-string produce_rows hands to slugify.
slug_source(focus, resource_type, grades, subject) ==
    focus \o "-" \o resource_type \o "-" \o join_with_and(grades) \o "-" \o subject

SlugInputs ==
    StringsUpTo(SlugAlphabet, MaxSlugLen)
    \cup {"Fractions-Worksheet, Grade 3!"}
    \cup {slug_source(f, r, g, s) : f \in {"Fractions", ""}, r \in {"Worksheet"},
                                    g \in {<<>>, <<"Grade 3">>}, s \in {"Math", ""}}

InitSlugify ==
    /\ pc = "call"
    /\ ret = None
    /\ arg \in [s : SlugInputs]
    /\ InitIdle

SlugifyCall ==
    /\ pc = "call"
    /\ ret' = slugify(arg.s)
    /\ pc' = "returned"
    /\ UNCHANGED <<req, cand, clusters, focus_terms, rows, arg>>

SpecSlugify == InitSlugify /\ [][SlugifyCall]_vars

\* A slug as the specification describes it: lowercase letters, digits and
\* hyphens only, no hyphen at either end, no two hyphens in a row.
WellFormedSlug(s) ==
    /\ \A i \in 1..Len(s) : Ch(s, i) \in CharsOf(LOWER) \cup DigitChars \cup {"-"}
    /\ s /= "" => Ch(s, 1) /= "-" /\ Ch(s, Len(s)) /= "-"
    /\ ~contains("--", s)

\* C7: slugify returns a well-formed slug for every input, and the empty
\* string on empty input.
C7_SlugWellFormed ==
    pc = "returned" =>
        /\ WellFormedSlug(ret)
        /\ arg.s = "" => ret = ""

(***************************************************************************)
(* Generators: format_short called on its own.                             *)
(***************************************************************************)
\* format_short on its own: lists of at most this many formats.
MaxFormats == 3

RECURSIVE SeqsUpTo(_, _)
SeqsUpTo(S, n) ==
    IF n = 0 THEN {<<>>}
    ELSE LET shorter == SeqsUpTo(S, n - 1)
         IN  shorter \cup {Append(q, x) : q \in shorter, x \in S}

\* [F(x) for x in seq]
RECURSIVE MapSeq(_, _)
MapSeq(F(_), seq) ==
    IF seq = <<>> THEN <<>> ELSE <<F(Head(seq))>> \o MapSeq(F, Tail(seq))

format_short(formats) ==
    IF formats = <<>> THEN "Printable & Digital"
    ELSE LET fm == MapSeq(title, formats)
             NotDigital(x) == x /= "Digital"
             fm2 == IF "Google Slides" \in Range(fm) /\ "Digital" \notin Range(fm)
                    THEN Filter(NotDigital, fm) ELSE fm
         IN  join_with_and(fm2)

\* The sidebar's format options, and one typed in lower case.
FormatLabels == {"Printable", "Digital", "Google Slides", "Self-Checking (Forms)", "digital"}

InitFormat ==
    /\ pc = "call"
    /\ ret = None
    /\ arg \in [formats : SeqsUpTo(FormatLabels, MaxFormats)]
    /\ InitIdle

FormatShortCall ==
    /\ pc = "call"
    /\ ret' = format_short(arg.formats)
    /\ pc' = "returned"
    /\ UNCHANGED <<req, cand, clusters, focus_terms, rows, arg>>

SpecFormat == InitFormat /\ [][FormatShortCall]_vars

\* C9: format_short returns "Printable & Digital" for no formats; otherwise
\* the title-cased formats joined by join_with_and, without the generic
\* "Digital" entry whenever "Google Slides" and "Digital" are both present.
C9_FormatShort ==
    pc = "returned" =>
        LET fm == MapSeq(title, arg.formats)
            NotDigital(x) == x /= "Digital"
            both == "Google Slides" \in Range(fm) /\ "Digital" \in Range(fm)
        IN  /\ arg.formats = <<>> => ret = "Printable & Digital"
            /\ arg.formats /= <<>> /\ both => ret = join_with_and(Filter(NotDigital, fm))
            /\ arg.formats /= <<>> /\ ~both => ret = join_with_and(fm)

(***************************************************************************)
(* SEO helpers: keyword_candidates and cluster_keywords.                   *)
(***************************************************************************)
\* re.sub(r"grade\s*", "", s, flags=re.I)
RECURSIVE sub_grade(_)
sub_grade(s) ==
    IF Len(s) < 5 THEN s
    ELSE IF lower(SubSeq(s, 1, 5)) = "grade"
         THEN LET rest == {j \in 6..Len(s) : ~IsSpace(Ch(s, j))}
              IN  IF rest = {} THEN "" ELSE sub_grade(SubSeq(s, Min(rest), Len(s)))
         ELSE Ch(s, 1) \o sub_grade(SubSeq(s, 2, Len(s)))

\* g: the bare grade identifiers, or [""] when no grade is selected
bare_grades(grades) ==
    LET G(gr) == strip(sub_grade(gr))
    IN  IF grades = <<>> THEN <<"">> ELSE MapSeq(G, grades)

\* the phrases before cleaning: base + long_tail + contexts + fmts + gv
keyword_phrases(subject, grades, resource_type, focus, extras) ==
    LET g == bare_grades(grades)
        NonEmpty(x) == x /= ""
        Norm(x) == strip("grade " \o x)
        gnorm == MapSeq(Norm, Filter(NonEmpty, g))
        base == << subject, resource_type, focus,
                   focus \o " " \o resource_type,
                   subject \o " " \o focus,
                   join_with_and(gnorm) \o " " \o resource_type,
                   focus \o " activities",
                   focus \o " worksheets",
                   focus \o " lesson plans",
                   focus \o " centers",
                   focus \o " assessments" >>
        long_tail == << focus \o " differentiated",
                        focus \o " small group",
                        focus \o " printable",
                        focus \o " no prep",
                        focus \o " google slides",
                        focus \o " self-checking",
                        focus \o " formative assessment" >>
        seasonal == IF extras.seasonal
                    THEN << focus \o " back to school", focus \o " end of year",
                            focus \o " test prep" >>
                    ELSE <<>>
        standards == IF extras.standards /= ""
                     THEN << focus \o " " \o extras.standards \o " aligned" >>
                     ELSE <<>>
        contexts == seasonal \o standards
        FmtPair(fmt) == << focus \o " " \o lower(fmt), resource_type \o " " \o lower(fmt) >>
        fmts == LET RECURSIVE Each(_)
                    Each(fs) == IF fs = <<>> THEN <<>> ELSE FmtPair(Head(fs)) \o Each(Tail(fs))
                IN  Each(extras.formats)
        GradeTriple(gr) == << focus \o " grade " \o gr, resource_type \o " grade " \o gr,
                              subject \o " grade " \o gr >>
        gv == LET RECURSIVE Each(_)
                  Each(gs) == IF gs = <<>> THEN <<>>
                              ELSE (IF Head(gs) = "" THEN <<>> ELSE GradeTriple(Head(gs)))
                                   \o Each(Tail(gs))
              IN  Each(g)
    IN  base \o long_tail \o contexts \o fmts \o gv

\* raw: every phrase stripped and lowercased
raw_keywords(phrases) ==
    LET R(k) == lower(strip(k)) IN MapSeq(R, phrases)

\* clean_keywords without its "if k": empty phrases are cleaned and kept.
clean_keywords_keeping_empty(raw) ==
    LET C(k) == strip(collapse_ws(k)) IN MapSeq(C, raw)

\* [re.sub(r"\s+", " ", k).strip() for k in raw if k]
clean_keywords(raw) ==
    LET NonEmpty(k) == k /= ""
        C(k) == strip(collapse_ws(k))
    IN  MapSeq(C, Filter(NonEmpty, raw))

keyword_candidates(subject, grades, resource_type, focus, extras) ==
    uniq(clean_keywords(raw_keywords(
        keyword_phrases(subject, grades, resource_type, focus, extras))))

\* The nouns of the WordNet lexicon among the words the model's phrases
\* start with.
WORDNET_NOUNS ==
    { "math", "worksheet", "fraction", "activity", "lesson", "center", "assessment",
      "grade", "test", "end", "back", "game", "unit", "area" }

\* WordNet's noun detachment rules: ending, replacement.
NOUN_RULES ==
    << <<"s", "">>, <<"ses", "s">>, <<"ves", "f">>, <<"xes", "x">>, <<"zes", "z">>,
       <<"ches", "ch">>, <<"shes", "sh">>, <<"men", "man">>, <<"ies", "y">> >>

EndsWith(w, e) == Len(w) >= Len(e) /\ SubSeq(w, Len(w) - Len(e) + 1, Len(w)) = e

\* lemmatizer.lemmatize(w): the shortest of the word and its detached forms
\* that the lexicon holds (the word itself wins a tie), or the word unchanged.
lemmatize(w) ==
    LET forms == {w} \cup { SubSeq(w, 1, Len(w) - Len(NOUN_RULES[r][1])) \o NOUN_RULES[r][2] :
                              r \in {q \in 1..Len(NOUN_RULES) : EndsWith(w, NOUN_RULES[q][1])} }
        found == forms \cap WORDNET_NOUNS
        shortest == {f \in found : \A h \in found : Len(f) <= Len(h)}
    IN  IF found = {} THEN w
        ELSE IF w \in shortest THEN w
        ELSE CHOOSE f \in shortest : TRUE

\* head: the lemmatized first token of a keyword
head_of(kw) == lemmatize(first_token(kw))

\* What a call that raises returns in the model.
IndexError == [raised |-> "IndexError"]

\* The slice left out: the whole bucket.
truncate_nothing(kws, max_per_cluster) == kws

\* kws[:max_per_cluster]
truncate(kws, max_per_cluster) ==
    SubSeq(kws, 1, IF Len(kws) < max_per_cluster THEN Len(kws) ELSE max_per_cluster)

\* An unstable sort: a cluster goes before the clusters of its own length.
sort_insert_before_equal(sorted, c) ==
    LET before == {i \in 1..Len(sorted) : Len(sorted[i]) > Len(c)}
        k == IF before = {} THEN 0 ELSE Max(before)
    IN  SubSeq(sorted, 1, k) \o <<c>> \o SubSeq(sorted, k + 1, Len(sorted))

\* list.sort(key=lambda c: -len(c)): stable, so a cluster goes after the
\* clusters that are at least as long.
sort_insert(sorted, c) ==
    LET before == {i \in 1..Len(sorted) : Len(sorted[i]) >= Len(c)}
        k == IF before = {} THEN 0 ELSE Max(before)
    IN  SubSeq(sorted, 1, k) \o <<c>> \o SubSeq(sorted, k + 1, Len(sorted))

RECURSIVE sort_clusters_from(_, _)
sort_clusters_from(cs, sorted) ==
    IF cs = <<>> THEN sorted
    ELSE sort_clusters_from(Tail(cs), sort_insert(sorted, Head(cs)))

sort_clusters(cs) == sort_clusters_from(cs, <<>>)

\* buckets: the heads in the order of their first keyword (a dict keeps
\* insertion order), each with its keywords in the list's order
bucket_heads(keywords) == uniq(MapSeq(head_of, keywords))

bucket(keywords, head) ==
    LET InBucket(kw) == head_of(kw) = head IN Filter(InBucket, keywords)

cluster_keywords(keywords, max_per_cluster) ==
    IF \E i \in 1..Len(keywords) : word_count(keywords[i]) = 0
    THEN IndexError   \* kw.split()[0] on a keyword with no token
    ELSE LET Cut(head) == truncate(bucket(keywords, head), max_per_cluster)
         IN  sort_clusters(MapSeq(Cut, bucket_heads(keywords)))

\* cluster_keywords' default max_per_cluster
DEFAULT_MAX_PER_CLUSTER == 6

(***************************************************************************)
(* cluster_keywords called on its own.                                     *)
(***************************************************************************)
\* cluster_keywords on its own: candidate lists of at most this many phrases.
MaxKeywords == 4
\* cluster_keywords on its own: max_per_cluster in 1..MaxPerCluster.
MaxPerCluster == 3

ClusterPhrases == {"fractions", "fraction games", "math", "worksheets fractions", "worksheet"}

InitCluster ==
    /\ pc = "call"
    /\ ret = None
    /\ arg \in [keywords : SeqsUpTo(ClusterPhrases, MaxKeywords),
                 max_per_cluster : 1..MaxPerCluster]
    /\ InitIdle

ClusterKeywordsCall ==
    /\ pc = "call"
    /\ ret' = cluster_keywords(arg.keywords, arg.max_per_cluster)
    /\ pc' = "returned"
    /\ UNCHANGED <<req, cand, clusters, focus_terms, rows, arg>>

SpecCluster == InitCluster /\ [][ClusterKeywordsCall]_vars

Sum(f, S) ==
    LET RECURSIVE Acc(_)
        Acc(T) == IF T = {} THEN 0 ELSE LET x == CHOOSE y \in T : TRUE IN f[x] + Acc(T \ {x})
    IN  Acc(S)

\* The index of the first keyword of the list whose head is h.
FirstWithHead(keywords, h) == Min({i \in 1..Len(keywords) : head_of(keywords[i]) = h})

\* C4: every cluster has at most max_per_cluster phrases, the clusters hold no
\* more phrases than the candidate list, and every phrase of a cluster is a
\* candidate placed in the bucket of its lemmatized first token (one cluster
\* per head, all of a cluster's phrases sharing that head).
C4_ClusterBounds ==
    pc = "returned" =>
        /\ \A i \in 1..Len(ret) : Len(ret[i]) >= 1 /\ Len(ret[i]) <= arg.max_per_cluster
        /\ Sum([i \in 1..Len(ret) |-> Len(ret[i])], 1..Len(ret)) <= Len(arg.keywords)
        /\ \A i \in 1..Len(ret) : \A k \in 1..Len(ret[i]) :
              /\ ret[i][k] \in Range(arg.keywords)
              /\ head_of(ret[i][k]) = head_of(ret[i][1])
        /\ \A i, j \in 1..Len(ret) : i /= j => head_of(ret[i][1]) /= head_of(ret[j][1])

\* C4 witness: a call that dropped phrases and returned more than one cluster.
C4_Witness ==
    /\ pc = "returned"
    /\ Len(ret) >= 2
    /\ Sum([i \in 1..Len(ret) |-> Len(ret[i])], 1..Len(ret)) < Len(arg.keywords)
    /\ \E i \in 1..Len(ret) : Len(ret[i]) = arg.max_per_cluster /\ Len(ret[i]) >= 2

presence(text, terms) ==
    LET lowered == lower(text)
    IN  Cardinality({i \in 1..Len(terms) : contains(lower(terms[i]), lowered)})

\* 0.4 * min(1.0, presence / max(1, len(focus_terms))), as the fraction
\* <<numerator, denominator>> of hundredths
presence_part(text, terms) ==
    LET n == IF Len(terms) < 1 THEN 1 ELSE Len(terms)
        p == presence(text, terms)
    IN  << 40 * (IF p > n THEN n ELSE p), n >>

\* round(x, 2) of x = (whole + part[1] / part[2]) hundredths: the nearest
\* hundredth, a tie going to the even one
round2(whole, part) ==
    LET num == whole * part[2] + part[1]
        q == num \div part[2]
        r2 == 2 * (num % part[2])
    IN  IF r2 > part[2] \/ (r2 = part[2] /\ q % 2 = 1) THEN q + 1 ELSE q

\* re.search(r"\b" + w + r"\b", s): w as a whole word of s
has_word(w, s) ==
    \E i \in 1..(Len(s) - Len(w) + 1) :
        /\ SubSeq(s, i, i + Len(w) - 1) = w
        /\ i = 1 \/ ~IsWord(Ch(s, i - 1))
        /\ i + Len(w) - 1 = Len(s) \/ ~IsWord(Ch(s, i + Len(w)))

\* re.search(r"\bgrade\b|\bk-\d\b|\bgrades?\b", title, re.I)
has_grade_token(title_text) ==
    LET t == lower(title_text)
    IN  \/ has_word("grade", t)
        \/ has_word("grades", t)
        \/ \E d \in DigitChars : has_word("k-" \o d, t)

RESOURCE_WORDS ==
    {"worksheet", "activity", "activities", "lesson", "bundle", "unit", "game",
     "center", "centers", "assessment"}

\* re.search(r"worksheet|activity|...|centers?|assessment", title, re.I)
has_resource_word(title_text) ==
    LET lowered == lower(title_text) IN \E w \in RESOURCE_WORDS : contains(w, lowered)

\* The score returned without min(score, 1.0).
score_uncapped(score) == score

score_cap(score) == IF score < 100 THEN score ELSE 100

score_title(title_text, terms) ==
    LET length == Len(title_text)
        length_score == IF 40 <= length /\ length <= 100 THEN 100
                        ELSE IF 25 <= length /\ length <= 120 THEN 70 ELSE 40
        structure == (IF has_grade_token(title_text) THEN 20 ELSE 0)
                     + (IF has_resource_word(title_text) THEN 20 ELSE 0)
        score == round2((60 * length_score) \div 100 + structure,
                        presence_part(title_text, terms))
    IN  [length |-> length, score |-> score_cap(score)]

DESC_PHRASES == {"perfect for", "includes", "what's inside", "how to use"}

score_description(desc, terms) ==
    LET length == Len(desc)
        lowered == lower(desc)
        structure == IF \E x \in DESC_PHRASES : contains(x, lowered) THEN 20 ELSE 0
        length_score == IF 300 <= length /\ length <= 900 THEN 100
                        ELSE IF 180 <= length /\ length <= 1200 THEN 80 ELSE 50
        score == round2((60 * length_score) \div 100 + structure,
                        presence_part(desc, terms))
    IN  [length |-> length, score |-> score_cap(score)]

(***************************************************************************)
(* Generators                                                              *)
(***************************************************************************)
\* The dash of three of the templates is, in the file, the three characters
\* U+00E2 U+20AC U+201C; a TLA+ string cannot hold the last one, and "~"
\* (one character, neither a word character nor whitespace) stands for it.
TITLE_TEMPLATES == <<
    "{Focus} {Resource} for {Grades} | {Subject} ({FormatShort})",
    "{Grades} {Subject}: {Focus} {Resource} â€~ Differentiated & No-Prep",
    "Engaging {Focus} {Resource} for {Grades} | Printable & Digital",
    "{Focus} {Resource} ({FormatShort}) â€~ {Grades} {Subject} Centers & Practice",
    "{Focus} {Resource} | {Grades} {Subject} | Aligned & Classroom-Tested",
    "No-Prep {Focus} {Resource} for {Grades} â€~ Small Groups & Intervention",
    "{Focus} {Resource} Bundle for {Grades} | {Subject} | Review & Assessment" >>

\* Likewise the apostrophe of the description texts is, in the file, U+00E2
\* U+20AC U+2122, and "^" stands for the last of the three.
CTA_TEMPLATES == <<
    "Perfect for whole group, small groups, centers, homework, or test prep.",
    "Use for stations, early finishers, intervention, sub plans, and assessments.",
    "Differentiated options support diverse learners and save you planning time.",
    "Low-prep and ready-to-print; includes digital versions for flexible teaching." >>

INCLUDES_TEMPLATES == <<
    "Includes {count} {resource_lower}(s), answer keys, and editable versions.",
    "Whatâ€^s inside: step-by-step teacher guide, printable pages, and digital slides.",
    "Youâ€^ll get: scaffolded practice, challenge tasks, and self-checking forms." >>

USAGE_TEMPLATES == <<
    "Ideal for {grades} {subject_lower} units on {focus_lower}.",
    "Aligns to {standards} with clear objectives and formative checks.",
    "Use during warm-ups, stations, exit tickets, assessments, and homework." >>

TONE_PHRASES ==
    [ neutral |-> <<"clear", "classroom-tested", "standards-aligned", "ready-to-use">>,
      enthusiastic |-> <<"engaging", "fun", "high-impact", "student-approved">>,
      professional |-> <<"data-informed", "research-based", "scaffolded", "differentiated">> ]

\* random.randint(10, 40)
COUNT_LOW == 10
COUNT_HIGH == 40

\* str(n), n >= 0
RECURSIVE str_of(_)
str_of(n) == IF n < 10 THEN Ch(DIGITS, n + 1) ELSE str_of(n \div 10) \o Ch(DIGITS, (n % 10) + 1)

\* template.format(**fields): every {name} replaced by fields[name]
RECURSIVE format(_, _)
format(template, fields) ==
    LET open == {i \in 1..Len(template) : Ch(template, i) = "{"}
    IN  IF open = {} THEN template
        ELSE LET i == Min(open)
                 j == Min({k \in i..Len(template) : Ch(template, k) = "}"})
             IN  SubSeq(template, 1, i - 1) \o fields[SubSeq(template, i + 1, j - 1)]
                 \o format(SubSeq(template, j + 1, Len(template)), fields)

\* The character limit generate_title hands to soft_cap.
TITLE_LIMIT == 110

\* generate_title; choice is what random.choice(TITLE_TEMPLATES) drew
generate_title(subject, grades, resource_type, focus, formats, choice) ==
    LET gtxt == IF grades /= <<>> THEN join_with_and(grades) ELSE ""
        fmt == format_short(formats)
        template == TITLE_TEMPLATES[choice]
        filled == format(template, [Focus |-> title_case(focus),
                                    Resource |-> title_case(resource_type),
                                    Grades |-> gtxt,
                                    Subject |-> title_case(subject),
                                    FormatShort |-> fmt])
    IN  soft_cap(strip(collapse_ws(filled)), TITLE_LIMIT)

EXTRA ==
    " Tips for differentiation and extension are included so every learner is challenged at the right level. "
    \o "Clear directions and answer keys make implementation quick for you and supportive for students. "

\* The loop testing the text it has rather than the text one block longer:
\* while len(desc.split()) < word_goal: desc += extra
RECURSIVE pad_past_goal(_, _)
pad_past_goal(desc, word_goal) ==
    IF word_count(desc) < word_goal
    THEN pad_past_goal(desc \o EXTRA, word_goal)
    ELSE desc

\* while len((desc + extra).split()) <= word_goal: desc += extra
RECURSIVE pad_to_goal(_, _)
pad_to_goal(desc, word_goal) ==
    IF word_count(desc \o EXTRA) <= word_goal
    THEN pad_to_goal(desc \o EXTRA, word_goal)
    ELSE desc

\* The four blocks joined: hook, what it is, how to use, call to action.
\* rnd holds what the random calls drew: includes, count, usage, cta.
description_blocks(subject, grades, resource_type, focus, formats, standards, tone, rnd) ==
    LET subject_lower == lower(subject)
        focus_lower == lower(focus)
        grades_txt == IF grades /= <<>> THEN join_with_and(grades) ELSE ""
        resource_lower == lower(resource_type)
        fmt == format_short(formats)
        tone_words == join(", ", IF tone \in DOMAIN TONE_PHRASES THEN TONE_PHRASES[tone]
                                 ELSE TONE_PHRASES["neutral"])
        hook == "Help your " \o lower(grades_txt) \o " " \o subject_lower
                \o " students master **" \o focus_lower \o "** with this " \o tone_words
                \o " " \o resource_lower \o ". "
                \o "Itâ€^s truly low-prep and comes in " \o lower(fmt)
                \o " for flexible teaching."
        what == format(INCLUDES_TEMPLATES[rnd.includes],
                       [count |-> str_of(rnd.count), resource_lower |-> resource_lower])
        use == format(USAGE_TEMPLATES[rnd.usage],
                      [grades |-> grades_txt, subject_lower |-> subject_lower,
                       focus_lower |-> focus_lower,
                       standards |-> IF standards /= "" THEN standards ELSE "key standards"])
        call_to_action == CTA_TEMPLATES[rnd.cta]
    IN  join(" ", <<hook, what, use, call_to_action>>)

generate_description(subject, grades, resource_type, focus, formats, standards, tone, word_goal, rnd) ==
    LET desc == description_blocks(subject, grades, resource_type, focus, formats,
                                   standards, tone, rnd)
    IN  strip(IF word_goal /= 0 /\ word_count(desc) < word_goal
              THEN pad_to_goal(desc, word_goal)
              ELSE desc)

(***************************************************************************)
(* score_title and score_description called on their own, twice in a row   *)
(* on the same arguments.                                                  *)
(***************************************************************************)
\* The scorers on their own: texts of 0, ScoreStep, ..., MaxScoreSteps * ScoreStep
\* characters.
ScoreStep == 10
MaxScoreSteps == 130
\* The scorers on their own: calls per behaviour.
MaxScoreCalls == 2

\* The request of the specification's end-to-end scenario.
BaseRequest ==
    [ subject |-> "Math", grades |-> <<"Grade 3">>, resource_type |-> "Worksheet",
      focus |-> "Fractions", formats |-> <<"Printable", "Digital">>, standards |-> "CCSS",
      tone |-> "enthusiastic", word_goal |-> 280, seasonal |-> TRUE, n_variations |-> 3 ]

\* A title followed by a description, to cut the scored texts from.
ScoreSource ==
    generate_title("Math", <<"Grade 3">>, "Worksheet", "Fractions", <<"Printable", "Digital">>, 1)
    \o " " \o
    generate_description("Math", <<"Grade 3">>, "Worksheet", "Fractions",
                         <<"Printable", "Digital">>, "CCSS", "enthusiastic", 280,
                         [includes |-> 1, count |-> 10, usage |-> 1, cta |-> 1])

ScoreTexts == {SubSeq(ScoreSource, 1, k * ScoreStep) : k \in 0..MaxScoreSteps}

ScoreTerms ==
    { <<>>, <<"fractions">>, <<"fractions", "math", "worksheet">>, <<"", "math", "zebra">>,
      <<"Fractions", "algebra">> }

InitScore ==
    /\ pc = "call"
    /\ ret = <<>>
    /\ arg \in [text : ScoreTexts, focus_terms : ScoreTerms]
    /\ InitIdle

ScoreTitleCall ==
    /\ pc = "call"
    /\ Len(ret) < MaxScoreCalls
    /\ ret' = Append(ret, [fn |-> "score_title",
                           result |-> score_title(arg.text, arg.focus_terms)])
    /\ UNCHANGED <<pc, req, cand, clusters, focus_terms, rows, arg>>

ScoreDescriptionCall ==
    /\ pc = "call"
    /\ Len(ret) < MaxScoreCalls
    /\ ret' = Append(ret, [fn |-> "score_description",
                           result |-> score_description(arg.text, arg.focus_terms)])
    /\ UNCHANGED <<pc, req, cand, clusters, focus_terms, rows, arg>>

SpecScore == InitScore /\ [][ScoreTitleCall \/ ScoreDescriptionCall]_vars

MaxWordGoal == 100

\* What the three random.choice calls and random.randint can draw: every
\* template of each list, and the two ends of randint's range (every count
\* has two digits, so the text's length and word count do not depend on it).
DescriptionDraws ==
    [ includes : 1..Len(INCLUDES_TEMPLATES), count : {COUNT_LOW, COUNT_HIGH},
      usage : 1..Len(USAGE_TEMPLATES), cta : 1..Len(CTA_TEMPLATES) ]

\* The scenario's request, and the request with every optional input absent.
DescRequests ==
    { [subject |-> "Math", grades |-> <<"Grade 3">>, resource_type |-> "Worksheet",
       focus |-> "Fractions", formats |-> <<"Printable", "Digital">>, standards |-> "CCSS",
       tone |-> "enthusiastic"],
      [subject |-> "", grades |-> <<>>, resource_type |-> "Worksheet",
       focus |-> "", formats |-> <<>>, standards |-> "", tone |-> "playful"] }

InitDesc ==
    /\ pc = "call"
    /\ ret = None
    /\ \E r \in DescRequests, wg \in 1..MaxWordGoal :
          arg = [subject |-> r.subject, grades |-> r.grades, resource_type |-> r.resource_type,
                 focus |-> r.focus, formats |-> r.formats, standards |-> r.standards,
                 tone |-> r.tone, word_goal |-> wg]
    /\ InitIdle

GenerateDescriptionCall ==
    /\ pc = "call"
    /\ \E rnd \in DescriptionDraws :
          ret' = [rnd |-> rnd,
                  desc |-> generate_description(arg.subject, arg.grades, arg.resource_type,
                                                arg.focus, arg.formats, arg.standards,
                                                arg.tone, arg.word_goal, rnd)]
    /\ pc' = "returned"
    /\ UNCHANGED <<req, cand, clusters, focus_terms, rows, arg>>

SpecDesc == InitDesc /\ [][GenerateDescriptionCall]_vars

\* The word count of the four blocks of the returned description, before
\* any filler.
BlocksWords ==
    word_count(description_blocks(arg.subject, arg.grades, arg.resource_type, arg.focus,
                                  arg.formats, arg.standards, arg.tone, ret.rnd))

MaxVariations == 2
\* produce_rows: an iteration draws one of the outcomes 0..MaxDraw.
MaxDraw == 6

\* What the random calls of one iteration draw.  The generator's state is not
\* modelled: an iteration takes one of MaxDraw + 1 outcomes, which between
\* them hold every template of every list.
Draw(k) ==
    [ title |-> (k % Len(TITLE_TEMPLATES)) + 1,
      includes |-> (k % Len(INCLUDES_TEMPLATES)) + 1,
      count |-> COUNT_LOW + (k % (COUNT_HIGH - COUNT_LOW + 1)),
      usage |-> ((k \div Len(INCLUDES_TEMPLATES)) % Len(USAGE_TEMPLATES)) + 1,
      cta |-> (k % Len(CTA_TEMPLATES)) + 1 ]

LongFocus == "Adding and Subtracting Fractions with Unlike Denominators and Mixed Numbers"

\* The sidebar's smallest description target.
WORD_GOAL_MIN == 120

\* The scenario's request with the smallest description target.
ShortRequest == [BaseRequest EXCEPT !.word_goal = WORD_GOAL_MIN]

\* The requests of the model: the scenario's request, and, with the smallest
\* description target, every combination of absent subject, grades, focus,
\* formats and standards, and the scenario's request with one input changed.
RequestFields ==
    { BaseRequest }
    \cup { [ShortRequest EXCEPT !.subject = su, !.grades = gr, !.focus = fo, !.formats = fm,
                                !.standards = sd] :
             su \in {"Math", ""}, gr \in {<<"Grade 3">>, <<>>}, fo \in {"Fractions", ""},
             fm \in {<<"Printable", "Digital">>, <<>>}, sd \in {"CCSS", ""} }
    \cup { [ShortRequest EXCEPT !.focus = LongFocus],
           [ShortRequest EXCEPT !.grades = <<"Kindergarten", "Grade 3", "Grade 4">>],
           [ShortRequest EXCEPT !.formats = <<"Digital", "Google Slides">>],
           [ShortRequest EXCEPT !.resource_type = "Activities"],
           [ShortRequest EXCEPT !.tone = "neutral", !.seasonal = FALSE],
           [ShortRequest EXCEPT !.tone = "playful"] }

\* Every request asks for one variation; the scenario's request and the one
\* with the long focus also ask for up to MaxVariations.
Requests ==
    { [r EXCEPT !.n_variations = 1] : r \in RequestFields }
    \cup { [r EXCEPT !.n_variations = n] :
             r \in {BaseRequest, [ShortRequest EXCEPT !.focus = LongFocus]},
             n \in 1..MaxVariations }

\* extras, the module-level dict built from the sidebar
extras_of(r) == [seasonal |-> r.seasonal, formats |-> r.formats, standards |-> r.standards]

\* list(itertools.islice(seq, n))
islice(seq, n) == SubSeq(seq, 1, IF Len(seq) < n THEN Len(seq) ELSE n)

\* list(itertools.chain.from_iterable(lists))
RECURSIVE chain(_)
chain(lists) == IF lists = <<>> THEN <<>> ELSE Head(lists) \o chain(Tail(lists))

KEYWORDS_SHOWN == 15
TAGS_SHOWN == 12

\* The row one iteration of produce_rows appends; d is what it drew.
make_row(r, cl, ca, terms, d) ==
    LET title_text == generate_title(r.subject, r.grades, r.resource_type, r.focus,
                                     r.formats, d.title)
        desc == generate_description(r.subject, r.grades, r.resource_type, r.focus,
                                     r.formats, r.standards, r.tone, r.word_goal, d)
        tscore == score_title(title_text, terms)
        dscore == score_description(desc, terms)
    IN  [ title |-> title_text,
          description |-> desc,
          keywords |-> join(", ", uniq(islice(chain(cl), KEYWORDS_SHOWN))),
          tags |-> join(", ", uniq(islice(ca, TAGS_SHOWN))),
          title_score |-> tscore.score,
          description_score |-> dscore.score,
          title_length |-> tscore.length,
          description_length |-> dscore.length,
          slug |-> slugify(slug_source(r.focus, r.resource_type, r.grades, r.subject)) ]

Init ==
    /\ pc = "start"
    /\ req \in Requests
    /\ cand = <<>> /\ clusters = <<>> /\ focus_terms = <<>> /\ rows = <<>>
    /\ arg = None /\ ret = None

\* produce_rows up to its loop: the candidates, the clusters, the focus terms.
ProduceRowsStart ==
    /\ pc = "start"
    /\ LET ca == keyword_candidates(req.subject, req.grades, req.resource_type, req.focus,
                                    extras_of(req))
           cl == cluster_keywords(ca, DEFAULT_MAX_PER_CLUSTER)
       IN  /\ cand' = ca
           /\ clusters' = cl
           /\ pc' = IF cl = IndexError THEN "raised" ELSE "loop"
    /\ focus_terms' = uniq(<<lower(req.focus), lower(req.subject), lower(req.resource_type)>>)
    /\ UNCHANGED <<req, rows, arg, ret>>

\* One iteration of the loop.
ProduceRowsIter ==
    /\ pc = "loop"
    /\ Len(rows) < req.n_variations
    /\ \E k \in 0..MaxDraw :
          rows' = Append(rows, make_row(req, clusters, cand, focus_terms, Draw(k)))
    /\ UNCHANGED <<pc, req, cand, clusters, focus_terms, arg, ret>>

\* return rows, clusters
ProduceRowsReturn ==
    /\ pc = "loop"
    /\ Len(rows) >= req.n_variations
    /\ pc' = "done"
    /\ UNCHANGED <<req, cand, clusters, focus_terms, rows, arg, ret>>

Next == ProduceRowsStart \/ ProduceRowsIter \/ ProduceRowsReturn

Spec == Init /\ [][Next]_vars

\* A keyword as the candidate list holds it: lowercased, whitespace runs
\* collapsed, stripped.
NormKw(k) == strip(collapse_ws(lower(k)))

\* The request's phrases in the order base + long_tail + contexts + formats +
\* per-grade phrases, each normalised.
SourcePhrases ==
    MapSeq(NormKw, keyword_phrases(req.subject, req.grades, req.resource_type, req.focus,
                                   extras_of(req)))

FirstIndex(seq, x) == Min({i \in 1..Len(seq) : seq[i] = x})

IsScenarioInput ==
    /\ req.subject = "Math" /\ req.focus = "Fractions"
    /\ req.resource_type = "Worksheet" /\ req.grades = <<"Grade 3">>

\* C3: the candidate list holds no empty string and no two entries equal
\* after lowercasing and whitespace normalisation; it holds every non-empty
\* phrase of the concatenation, in the order of first occurrence there; and
\* for the scenario's subject, focus, resource type and grades it holds
\* "math", "worksheet", "fractions", "fractions worksheet" in that order.
C3_CandidatesUniqueOrdered ==
    pc = "loop" /\ rows = <<>> =>
        LET src == SourcePhrases
            First(k) == FirstIndex(src, k)
            norm == MapSeq(NormKw, cand)
            first == MapSeq(First, cand)
        IN  /\ \A i \in 1..Len(cand) : cand[i] /= ""
            /\ \A i, j \in 1..Len(cand) : i /= j => norm[i] /= norm[j]
            /\ Range(cand) = Range(src) \ {""}
            /\ \A i, j \in 1..Len(cand) : i < j => first[i] < first[j]
            /\ IsScenarioInput =>
                  /\ {"math", "worksheet", "fractions", "fractions worksheet"}
                        \subseteq Range(cand)
                  /\ FirstIndex(cand, "math") < FirstIndex(cand, "worksheet")
                  /\ FirstIndex(cand, "worksheet") < FirstIndex(cand, "fractions")
                  /\ FirstIndex(cand, "fractions") < FirstIndex(cand, "fractions worksheet")

\* C3 witness: the scenario's request, whose concatenation repeats a phrase
\* ("fractions printable" is a long-tail phrase and a format phrase).
C3_Witness ==
    /\ pc = "loop" /\ rows = <<>>
    /\ IsScenarioInput
    /\ req.formats /= <<>>
    /\ LET src == SourcePhrases
       IN  /\ Len(cand) < Len(src)
           /\ \E i, j \in 1..Len(src) : i /= j /\ src[i] = src[j] /\ src[i] /= ""

\* C6: for a request with a non-empty focus produce_rows returns exactly
\* n_variations rows, each with a title of at most 111 characters and a
\* non-empty keywords field that contains the lowercased focus.
C6_RowsAsSpecified ==
    pc = "done" /\ req.focus /= "" =>
        /\ Len(rows) = req.n_variations
        /\ \A i \in 1..Len(rows) :
              /\ Len(rows[i].title) <= TITLE_LIMIT + 1
              /\ rows[i].keywords /= ""
              /\ contains(lower(req.focus), rows[i].keywords)

\* C8: no call of the pass raises: the pass is never where a raised error
\* leaves it, cluster_keywords never meets a candidate without a token, no
\* cluster is empty, and the pass returns the rows asked for, each complete.
C8_NoError ==
    /\ pc \in {"start", "loop", "done"}
    /\ \A i \in 1..Len(cand) : word_count(cand[i]) >= 1
    /\ pc /= "start" => clusters /= IndexError /\ \A i \in 1..Len(clusters) : clusters[i] /= <<>>
    /\ pc = "loop" => Len(rows) <= req.n_variations
    /\ pc = "done" =>
          /\ Len(rows) = req.n_variations
          /\ \A i \in 1..Len(rows) :
                /\ rows[i].title_length = Len(rows[i].title)
                /\ rows[i].description_length = Len(rows[i].description)

\* C8 witness: a pass that returned with no grades, no focus, no subject, no
\* formats and no standards.
C8_Witness ==
    /\ pc = "done"
    /\ req.grades = <<>> /\ req.focus = "" /\ req.subject = ""
    /\ req.formats = <<>> /\ req.standards = ""
    /\ Len(rows) = req.n_variations /\ Len(rows) >= 1

====
